---- MODULE Spec2Model ----
(***************************************************************************)
(* Model of app_improved.py: the Bible language-lesson generator.          *)
(*                                                                         *)
(* generate_lesson resolves the credentials, builds a                      *)
(* BibleLanguageLearningSystem and runs run_full_lesson_generation: four   *)
(* generation stages (verse, reading, exercise, answer), each one chat     *)
(* completion whose raw text is cut out of its code fences and decoded     *)
(* with json.loads or replaced by a hard-coded fallback record, then an    *)
(* optional ElevenLabs synthesis request, generate_pdf and                 *)
(* format_lesson_display.                                                  *)
(*                                                                         *)
(* Texts are sequences of runs [c, o, n]: n characters of the literal c    *)
(* starting at its offset o.  A whole literal has o = 0 and its full       *)
(* length; slicing a text cuts runs.  JSON values are records              *)
(* [t, s, keys, items] with t the Python type of the decoded value; a      *)
(* dict keeps its keys in document order (keys[i] maps to items[i]).       *)
(***************************************************************************)
EXTENDS Integers, Sequences, FiniteSets, TLC

\* ------------------------------------------------------------- bounds
\* Longest raw response (in tokens) enumerated for the stage-level check.
MaxLen == 4
\* Last reading of the wall clock (seconds since the first submission).
MaxClock == 2

\* ------------------------------------------------- program constants
VerseTextCut == 100
MeditationCut == 200
ReadingCut == 300
HttpOk == 200

\* ---------------------------------------------------------------- texts
\* c is <<literal, suffix>>: the suffix is the language a generated document
\* was written for and is empty for every other literal.
Run(c, o, n) == [c |-> c, o |-> o, n |-> n]
Lit(c, n) == <<Run(<<c, "">>, 0, n)>>
EmptyText == <<>>

RECURSIVE TextLen(_)
TextLen(t) == IF t = <<>> THEN 0 ELSE Head(t).n + TextLen(Tail(t))

\* t[lo:hi] for 0 <= lo: the characters at positions lo .. hi-1
RECURSIVE PySlice(_, _, _)
PySlice(t, lo, hi) ==
    IF t = <<>> \/ hi <= 0 THEN <<>>
    ELSE LET h == Head(t)
             a == IF lo > 0 THEN lo ELSE 0
             b == IF hi < h.n THEN hi ELSE h.n
             piece == IF a < b THEN <<Run(h.c, h.o + a, b - a)>> ELSE <<>>
         IN  piece \o PySlice(Tail(t), lo - h.n, hi - h.n)

\* The tokens the extraction looks for.
\* the three-backtick fence, the label json that may follow it, a line break
Fence == Run(<<"fence", "">>, 0, 3)
JsonLabel == Run(<<"json", "">>, 0, 4)
Newline == Run(<<"nl", "">>, 0, 1)
IsSpace(r) == r.c[1] = "nl"

\* position of the first occurrence of sep in t, 0 when there is none
IndexOf(t, sep) ==
    LET hits == {i \in 1..(Len(t) - Len(sep) + 1) :
                    SubSeq(t, i, i + Len(sep) - 1) = sep}
    IN  IF hits = {} THEN 0 ELSE CHOOSE i \in hits : \A j \in hits : i <= j

\* sep in t
Contains(t, sep) == IndexOf(t, sep) # 0

\* t.split(sep)
RECURSIVE PySplit(_, _)
PySplit(t, sep) ==
    LET i == IndexOf(t, sep)
    IN  IF i = 0 THEN <<t>>
        ELSE <<SubSeq(t, 1, i - 1)>> \o PySplit(SubSeq(t, i + Len(sep), Len(t)), sep)

\* t.strip()
RECURSIVE LStrip(_)
LStrip(t) == IF t # <<>> /\ IsSpace(Head(t)) THEN LStrip(Tail(t)) ELSE t
RECURSIVE RStrip(_)
RStrip(t) == IF t # <<>> /\ IsSpace(t[Len(t)]) THEN RStrip(SubSeq(t, 1, Len(t) - 1)) ELSE t
PyStrip(t) == RStrip(LStrip(t))

\* --------------------------------------------------------------- values
NoneVal == [t |-> "none", s |-> <<>>, keys |-> <<>>, items |-> <<>>]
StrVal(text) == [t |-> "str", s |-> text, keys |-> <<>>, items |-> <<>>]
NumVal == [t |-> "num", s |-> <<>>, keys |-> <<>>, items |-> <<>>]
ListVal(items) == [t |-> "list", s |-> <<>>, keys |-> <<>>, items |-> items]
DictVal(keys, items) == [t |-> "dict", s |-> <<>>, keys |-> keys, items |-> items]

IsDict(v) == v.t = "dict"
HasKey(d, k) == \E i \in 1..Len(d.keys) : d.keys[i] = k
\* d.get(k, default) on a dict d
DictGet(d, k, default) ==
    IF HasKey(d, k)
    THEN d.items[CHOOSE i \in 1..Len(d.keys) : d.keys[i] = k]
    ELSE default
\* bool(v)
Truthy(v) ==
    CASE v.t = "none" -> FALSE
      [] v.t = "str"  -> v.s # <<>>
      [] v.t = "num"  -> TRUE
      [] v.t = "list" -> v.items # <<>>
      [] v.t = "dict" -> v.keys # <<>>
\* v[:n] is defined for strings and lists
Sliceable(v) == v.t \in {"str", "list"}

\* Keys are <<prefix, suffix>>: a fixed key has the empty suffix, a
\* language-specific one the lowercased language label.
Key(name) == <<name, "">>
Languages == {"Spanish", "French"}
Lower(language) ==
    CASE language = "Spanish" -> "spanish"
      [] language = "French"  -> "french"
      [] OTHER -> language
fieldName(prefix, language) == <<prefix, Lower(language)>>

\* ------------------------------------------------ what the model may write
\* Prose: text that is no JSON document.
ProseLen == 60
Prose == Run(<<"prose", "">>, 0, ProseLen)
\* A JSON document of the given kind whose language-specific keys carry
\* the suffix l.  Each is one run: cut anywhere, it no longer decodes.
JsonDocLen == 120
JsonDoc(kind, l) == Run(<<kind, l>>, 0, JsonDocLen)
JsonKinds == {"verse", "reading", "reading_num", "reading_vocab_null",
              "exercises", "exercises_str", "answers", "list", "string"}

Questions(kind) == ListVal(<<DictVal(<<Key("question")>>, <<StrVal(Lit(kind, 20))>>)>>)
Strings(kind) == ListVal(<<StrVal(Lit(kind, 20))>>)
Answers(kind) ==
    ListVal(<<DictVal(<<Key("answer"), Key("explanation")>>,
                      <<StrVal(Lit(kind, 10)), StrVal(Lit("because", 7))>>)>>)
Categories == <<Key("reading_exercises"), Key("writing_exercises"),
                Key("listening_exercises"), Key("speaking_exercises"),
                Key("filling_exercises")>>

\* The value json.loads gives for a whole document.
JsonValue(kind, l) ==
    CASE kind = "verse" ->
           DictVal(<<Key("verse_reference"), <<"verse_text_", "english">>,
                     <<"verse_text_", l>>, <<"meditation_", "english">>,
                     <<"meditation_", l>>>>,
                   <<StrVal(Lit("Psalm 23:1", 10)), StrVal(Lit("verse en", 40)),
                     StrVal(Lit("verse", 40)), StrVal(Lit("meditation en", 80)),
                     StrVal(Lit("meditation", 80))>>)
      [] kind = "reading" ->
           DictVal(<<<<"reading_text_", l>>, <<"reading_text_", "english">>,
                     Key("key_vocabulary")>>,
                   <<StrVal(Lit("passage", 400)), StrVal(Lit("passage en", 400)),
                     Strings("word")>>)
      [] kind = "reading_num" ->
           DictVal(<<<<"reading_text_", l>>, Key("key_vocabulary")>>,
                   <<NumVal, Strings("word")>>)
      [] kind = "reading_vocab_null" ->
           DictVal(<<<<"reading_text_", l>>, Key("key_vocabulary")>>,
                   <<StrVal(Lit("passage", 400)), NoneVal>>)
      [] kind = "exercises" ->
           DictVal(Categories, [i \in 1..5 |-> Questions("question")])
      [] kind = "exercises_str" ->
           DictVal(Categories, [i \in 1..5 |-> Strings("question")])
      [] kind = "answers" ->
           DictVal(Categories, [i \in 1..5 |-> Answers("answer")])
      [] kind = "list" -> ListVal(<<NumVal>>)
      [] kind = "string" -> StrVal(Lit("hello", 5))

\* json.loads(t) succeeds on exactly one whole document, white space around
\* it allowed; anything else is a JSONDecodeError.
json_loads_ok(t) ==
    LET u == PyStrip(t)
    IN  /\ Len(u) = 1
        /\ u[1].c[1] \in JsonKinds
        /\ u[1].o = 0
        /\ u[1].n = JsonDocLen
json_loads(t) == LET u == PyStrip(t) IN JsonValue(u[1].c[1], u[1].c[2])

\* ------------------------------------------------------ generation call
\* An outcome of chat.completions.create: the text the model wrote, or an
\* exception with its message.
GptOk(text) == [failed |-> FALSE, text |-> text]
GptFail(msg) == [failed |-> TRUE, text |-> msg]

\* _call_gpt without its try/except: the exception leaves the stage.
CallGptUnguarded(outcome) ==
    IF outcome.failed THEN [raised |-> TRUE, text |-> EmptyText]
    ELSE [raised |-> FALSE, text |-> outcome.text]
\* _call_gpt: the content, or "Error: <message>" when the call raised.
CallGpt(outcome) ==
    IF outcome.failed
    THEN [raised |-> FALSE, text |-> Lit("Error: ", 7) \o outcome.text]
    ELSE [raised |-> FALSE, text |-> outcome.text]

\* ------------------------------------------------------- the extraction
\* The generic fence tried before the labelled one.
JsonStrGenericFirst(response) ==
    IF Contains(response, <<Fence>>)
    THEN PyStrip(PySplit(PySplit(response, <<Fence>>)[2], <<Fence>>)[1])
    ELSE PyStrip(response)
\* The text handed to json.loads: between the first labelled fence and the
\* next fence, else between the first two fences, else the whole response.
JsonStr(response) ==
    IF Contains(response, <<Fence, JsonLabel>>)
    THEN PyStrip(PySplit(PySplit(response, <<Fence, JsonLabel>>)[2], <<Fence>>)[1])
    ELSE IF Contains(response, <<Fence>>)
    THEN PyStrip(PySplit(PySplit(response, <<Fence>>)[2], <<Fence>>)[1])
    ELSE PyStrip(response)

\* ------------------------------------------------------------ fallbacks
\* The verse fallback without its meditation_<language> entry.
VerseFallbackShort(language, response) ==
    DictVal(<<Key("verse_reference"), <<"verse_text_", "english">>,
              fieldName("verse_text_", language), <<"meditation_", "english">>>>,
            <<StrVal(Lit("John 3:16", 9)),
              StrVal(Lit("For God so loved the world...", 29)),
              StrVal(PySlice(response, 0, VerseTextCut)),
              StrVal(Lit("God's love for humanity.", 24))>>)
VerseFallback(language, response) ==
    DictVal(<<Key("verse_reference"), <<"verse_text_", "english">>,
              fieldName("verse_text_", language), <<"meditation_", "english">>,
              fieldName("meditation_", language)>>,
            <<StrVal(Lit("John 3:16", 9)),
              StrVal(Lit("For God so loved the world...", 29)),
              StrVal(PySlice(response, 0, VerseTextCut)),
              StrVal(Lit("God's love for humanity.", 24)),
              StrVal(IF TextLen(response) > VerseTextCut
                     THEN PySlice(response, VerseTextCut, MeditationCut)
                     ELSE Lit("Meditacion", 10))>>)
ReadingFallback(language, response) ==
    DictVal(<<fieldName("reading_text_", language), <<"reading_text_", "english">>,
              Key("key_vocabulary")>>,
            <<StrVal(PySlice(response, 0, ReadingCut)),
              StrVal(Lit("Reading comprehension text", 26)),
              ListVal(<<StrVal(Lit("faith", 5)), StrVal(Lit("love", 4)),
                        StrVal(Lit("grace", 5))>>)>>)
ExerciseFallback ==
    DictVal(Categories,
            <<Questions("Cual es el tema principal del texto?"),
              Questions("Escribe sobre tu experiencia personal con este tema."),
              Questions("Que palabras clave escuchaste?"),
              Questions("Explica el significado del verso en tus propias palabras."),
              Questions("La ___ es importante en la vida cristiana.")>>)
AnswerFallback ==
    DictVal(Categories,
            <<Answers("El tema principal es..."),
              Answers("Ejemplo de respuesta modelo"),
              Answers("Palabras clave: fe, amor, esperanza"),
              Answers("El verso significa que..."),
              Answers("fe")>>)

\* --------------------------------------------------------------- stages
Stages == {"verse", "reading", "exercise", "answer"}
Fallback(stage, language, response) ==
    CASE stage = "verse" -> VerseFallback(language, response)
      [] stage = "reading" -> ReadingFallback(language, response)
      [] stage = "exercise" -> ExerciseFallback
      [] stage = "answer" -> AnswerFallback

\* What a stage does with the outcome of its call: the try/except around the
\* extraction and json.loads.  [raised, val].
StageParse(stage, language, outcome) ==
    LET got == CallGpt(outcome)
        js == JsonStr(got.text)
    IN  IF got.raised THEN [raised |-> TRUE, val |-> NoneVal]
        ELSE IF json_loads_ok(js) THEN [raised |-> FALSE, val |-> json_loads(js)]
        ELSE [raised |-> FALSE, val |-> Fallback(stage, language, got.text)]

\* Building the user message, before the call.  It raises (AttributeError,
\* TypeError) when an earlier record has no .get or a value has no slice.
ReadingPromptOk(language, verse_data) == IsDict(verse_data)
ExercisePromptOk(language, verse_data, reading_data) ==
    /\ IsDict(verse_data)
    /\ IsDict(reading_data)
    /\ Sliceable(DictGet(reading_data, fieldName("reading_text_", language),
                         StrVal(EmptyText)))
AnswerPromptOk(language, reading_data) ==
    /\ IsDict(reading_data)
    /\ Sliceable(DictGet(reading_data, fieldName("reading_text_", language),
                         StrVal(EmptyText)))
PromptOk(stage, language, verse_data, reading_data) ==
    CASE stage = "verse" -> TRUE
      [] stage = "reading" -> ReadingPromptOk(language, verse_data)
      [] stage = "exercise" -> ExercisePromptOk(language, verse_data, reading_data)
      [] stage = "answer" -> AnswerPromptOk(language, reading_data)

\* ---------------------------------------------------------- credentials
\* A credential is a string; the empty text box gives "", an unset
\* environment variable gives None (written "None").
Falsy(k) == k \in {"", "None"}
\* "is None" in place of the truth test: an empty string counts as a key.
KeyPresentNotNone(k) == k # "None"
\* if self.elevenlabs_key
KeyPresent(k) == ~Falsy(k)
\* "is None" in place of "not api_key".
ApiKeyMissingNoneOnly(k) == k = "None"
\* if not api_key
ApiKeyMissing(k) == Falsy(k)

\* ---------------------------------------------------------------- state
Runs == {"r1", "r2"}
NoPath == <<>>
AudioPath(t) == <<"reading_audio_", t>>
PdfPath(t) == <<"bible_lesson_", t>>

VARIABLES
    run,      \* per submission: the request, the system object, the locals
              \* of run_full_lesson_generation, what generate_lesson returned
    now,      \* the wall clock, in seconds
    files,    \* the files written to the temporary directory, and by whom
    env,      \* OPENAI_API_KEY and ELEVEN_API_KEY of the process
    st        \* one stage called on its own: its arguments and its result

vars == <<run, now, files, env, st>>

NoCalls == [s \in Stages |-> 0]
NoResult == [kind |-> "none", pdf |-> NoPath, audio |-> NoPath]
NoDoc == [level |-> "", verse_ref |-> NoneVal, verse_text |-> NoneVal,
          reading_text |-> NoneVal, audio_note |-> FALSE]
NoBundle == [level |-> "", verse_data |-> NoneVal, reading_data |-> NoneVal,
             lesson_data |-> NoneVal, answers |-> NoneVal, audio_path |-> NoPath]
FreshRun(pc) ==
    [pc |-> pc,
     req_api_key |-> "", req_elevenlabs_key |-> "",
     api_key |-> "", elevenlabs_key |-> "", language |-> "", level |-> "",
     verse_data |-> NoneVal, reading_data |-> NoneVal,
     lesson_data |-> NoneVal, answers |-> NoneVal,
     answer_input |-> NoneVal, raw |-> [s \in Stages |-> GptOk(EmptyText)],
     audio_path |-> NoPath, tts_outcome |-> "none",
     lesson_content |-> NoBundle, bundled |-> FALSE,
     pdf_path |-> NoPath, doc |-> NoDoc,
     result |-> NoResult,
     calls |-> NoCalls, tts_calls |-> 0, log |-> <<>>]

Ev(e, s) == [e |-> e, s |-> s]
Progress(pct) == Ev("progress", pct)

\* An except clause that hands back what was produced before the exception.
FailedKeepsOutputs(rec) ==
    [rec EXCEPT !.pc = "done",
                !.result = [kind |-> "error", pdf |-> rec.pdf_path,
                            audio |-> rec.audio_path]]
\* generate_lesson's except clause: the error string, no document, no audio.
Failed(rec) ==
    [rec EXCEPT !.pc = "done",
                !.result = [kind |-> "error", pdf |-> NoPath, audio |-> NoPath]]

Set(r, rec) == run' = [run EXCEPT ![r] = rec]

\* -------------------------------------------------------- generate_lesson
\* Lines 514-527: the credentials are resolved, and either the request is
\* refused or the system object is built.
Submit(r, api_key, elevenlabs_key, language, level) ==
    /\ run[r].pc = "idle"
    /\ LET key == IF ApiKeyMissing(api_key) THEN env.openai ELSE api_key
           el == IF ApiKeyMissing(api_key) THEN env.eleven ELSE elevenlabs_key
           rec == [run[r] EXCEPT !.req_api_key = api_key,
                                 !.req_elevenlabs_key = elevenlabs_key,
                                 !.language = language, !.level = level]
       IN  IF ApiKeyMissing(api_key) /\ ApiKeyMissing(key)
           THEN Set(r, [rec EXCEPT !.pc = "done",
                          !.result = [kind |-> "missing_key", pdf |-> NoPath,
                                      audio |-> NoPath]])
           ELSE Set(r, [rec EXCEPT !.pc = "verse", !.api_key = key,
                                   !.elevenlabs_key = el])
    /\ UNCHANGED <<now, files, env, st>>

\* ----------------------------------------------- run_full_lesson_generation
\* Lines 410-414 and 63: the first two progress notes, and the verse call
\* is issued.
VerseBegin(r) ==
    /\ run[r].pc = "verse"
    /\ Set(r, [run[r] EXCEPT !.pc = "verse_wait",
                 !.calls["verse"] = @ + 1,
                 !.log = @ \o <<Progress("0"), Progress("15"), Ev("call", "verse")>>])
    /\ UNCHANGED <<now, files, env, st>>

\* Lines 63-81: the call returns (or raised) and the response is reduced.
VerseReturn(r, outcome) ==
    /\ run[r].pc = "verse_wait"
    /\ LET res == StageParse("verse", run[r].language, outcome)
           rec == [run[r] EXCEPT !.raw["verse"] = outcome]
       IN  IF res.raised THEN Set(r, Failed(rec))
           ELSE Set(r, [rec EXCEPT !.pc = "reading", !.verse_data = res.val,
                                   !.log = @ \o <<Ev("return", "verse")>>])
    /\ UNCHANGED <<now, files, env, st>>

\* Lines 417-418, 99-103.
ReadingBegin(r) ==
    /\ run[r].pc = "reading"
    /\ LET rec == [run[r] EXCEPT !.log = @ \o <<Progress("30")>>]
       IN  IF ReadingPromptOk(run[r].language, run[r].verse_data)
           THEN Set(r, [rec EXCEPT !.pc = "reading_wait",
                          !.calls["reading"] = @ + 1,
                          !.log = @ \o <<Ev("call", "reading")>>])
           ELSE Set(r, Failed(rec))
    /\ UNCHANGED <<now, files, env, st>>

\* Lines 103-119.
ReadingReturn(r, outcome) ==
    /\ run[r].pc = "reading_wait"
    /\ LET res == StageParse("reading", run[r].language, outcome)
           rec == [run[r] EXCEPT !.raw["reading"] = outcome]
       IN  IF res.raised THEN Set(r, Failed(rec))
           ELSE Set(r, [rec EXCEPT !.pc = "exercise", !.reading_data = res.val,
                                   !.log = @ \o <<Ev("return", "reading")>>])
    /\ UNCHANGED <<now, files, env, st>>

\* Lines 421-422, 143-148.
ExerciseBegin(r) ==
    /\ run[r].pc = "exercise"
    /\ LET rec == [run[r] EXCEPT !.log = @ \o <<Progress("45")>>]
       IN  IF ExercisePromptOk(run[r].language, run[r].verse_data, run[r].reading_data)
           THEN Set(r, [rec EXCEPT !.pc = "exercise_wait",
                          !.calls["exercise"] = @ + 1,
                          !.log = @ \o <<Ev("call", "exercise")>>])
           ELSE Set(r, Failed(rec))
    /\ UNCHANGED <<now, files, env, st>>

\* Lines 148-166.
ExerciseReturn(r, outcome) ==
    /\ run[r].pc = "exercise_wait"
    /\ LET res == StageParse("exercise", run[r].language, outcome)
           rec == [run[r] EXCEPT !.raw["exercise"] = outcome]
       IN  IF res.raised THEN Set(r, Failed(rec))
           ELSE Set(r, [rec EXCEPT !.pc = "answer", !.lesson_data = res.val,
                                   !.log = @ \o <<Ev("return", "exercise")>>])
    /\ UNCHANGED <<now, files, env, st>>

\* Lines 425-426, 184-189: the answer stage is entered with lesson_data.
AnswerBegin(r) ==
    /\ run[r].pc = "answer"
    /\ LET rec == [run[r] EXCEPT !.log = @ \o <<Progress("60")>>,
                                 !.answer_input = run[r].lesson_data]
       IN  IF AnswerPromptOk(run[r].language, run[r].reading_data)
           THEN Set(r, [rec EXCEPT !.pc = "answer_wait",
                          !.calls["answer"] = @ + 1,
                          !.log = @ \o <<Ev("call", "answer")>>])
           ELSE Set(r, Failed(rec))
    /\ UNCHANGED <<now, files, env, st>>

\* Lines 189-207.
AnswerReturn(r, outcome) ==
    /\ run[r].pc = "answer_wait"
    /\ LET res == StageParse("answer", run[r].language, outcome)
           rec == [run[r] EXCEPT !.raw["answer"] = outcome]
       IN  IF res.raised THEN Set(r, Failed(rec))
           ELSE Set(r, [rec EXCEPT !.pc = "audio", !.answers = res.val,
                                   !.log = @ \o <<Ev("return", "answer")>>])
    /\ UNCHANGED <<now, files, env, st>>

\* ---------------------------------------------------------------- audio
TtsOutcomes == {"ok", "status", "transport"}

\* Lines 429-434 and 209-249: without a synthesis key, or with an empty
\* reading text, the stage is passed over; else the request is posted.
AudioBegin(r) ==
    /\ run[r].pc = "audio"
    /\ IF KeyPresent(run[r].elevenlabs_key)
       THEN LET rec == [run[r] EXCEPT !.log = @ \o <<Progress("75")>>]
                reading_text ==
                    DictGet(run[r].reading_data,
                            fieldName("reading_text_", run[r].language),
                            StrVal(EmptyText))
            IN  IF ~IsDict(run[r].reading_data) THEN Set(r, Failed(rec))
                ELSE IF Truthy(reading_text) /\ KeyPresent(run[r].elevenlabs_key)
                THEN Set(r, [rec EXCEPT !.pc = "tts_wait", !.tts_calls = @ + 1,
                                        !.log = @ \o <<Ev("call", "audio")>>])
                ELSE Set(r, [rec EXCEPT !.pc = "render"])
       ELSE Set(r, [run[r] EXCEPT !.pc = "render"])
    /\ UNCHANGED <<now, files, env, st>>

\* Lines 249-267: status 200 writes the audio file named after the clock;
\* any other status and any exception give None.
TtsReturn(r, outcome) ==
    /\ run[r].pc = "tts_wait"
    /\ LET status == CASE outcome = "ok" -> HttpOk
                       [] outcome = "status" -> 401
                       [] OTHER -> 0
           rec == [run[r] EXCEPT !.pc = "render", !.tts_outcome = outcome,
                                 !.log = @ \o <<Ev("return", "audio")>>]
       IN  IF outcome # "transport" /\ status = HttpOk
           THEN /\ Set(r, [rec EXCEPT !.audio_path = AudioPath(now)])
                /\ files' = files \cup {[path |-> AudioPath(now), by |-> r]}
           ELSE /\ Set(r, rec)
                /\ files' = files
    /\ UNCHANGED <<now, env, st>>

\* --------------------------------------------------------------- render
AllStr(v) == \A i \in 1..Len(v.items) : v.items[i].t = "str"
\* generate_pdf reads every record with .get and joins a vocabulary list.
PdfOk(b) ==
    /\ IsDict(b.verse_data)
    /\ IsDict(b.reading_data)
    /\ LET vocab == DictGet(b.reading_data, Key("key_vocabulary"), ListVal(<<>>))
       IN  (Truthy(vocab) /\ vocab.t = "list") => AllStr(vocab)
    /\ IsDict(b.lesson_data)
    /\ IsDict(b.answers)

\* Line 332: if lesson_content.get('audio_path')
AudioNote(b) == b.audio_path # NoPath

\* Lines 300-334: what generate_pdf puts on the first page.
Document(language, b) ==
    [level |-> b.level,
     verse_ref |-> DictGet(b.verse_data, Key("verse_reference"), StrVal(Lit("N/A", 3))),
     verse_text |-> DictGet(b.verse_data, fieldName("verse_text_", language),
                            StrVal(Lit("N/A", 3))),
     reading_text |-> DictGet(b.reading_data, fieldName("reading_text_", language),
                              StrVal(Lit("N/A", 3))),
     audio_note |-> AudioNote(b)]

\* Lines 437-448: the bundle is assembled and generate_pdf writes the
\* document under a name made of the clock reading.
Render(r) ==
    /\ run[r].pc = "render"
    /\ LET b == [level |-> run[r].level, verse_data |-> run[r].verse_data,
                 reading_data |-> run[r].reading_data,
                 lesson_data |-> run[r].lesson_data, answers |-> run[r].answers,
                 audio_path |-> run[r].audio_path]
           rec == [run[r] EXCEPT !.lesson_content = b, !.bundled = TRUE,
                                 !.log = @ \o <<Progress("90"), Ev("call", "render")>>]
       IN  IF PdfOk(b)
           THEN /\ Set(r, [rec EXCEPT !.pc = "display", !.pdf_path = PdfPath(now),
                             !.doc = Document(run[r].language, b),
                             !.log = @ \o <<Ev("return", "render"), Progress("100")>>])
                /\ files' = files \cup {[path |-> PdfPath(now), by |-> r]}
           ELSE /\ Set(r, Failed(rec))
                /\ files' = files
    /\ UNCHANGED <<now, env, st>>

\* -------------------------------------------------------------- display
\* for i, ex in enumerate(lesson_data.get(category, []), 1): ex.get(...)
CategoryDisplayOk(v) ==
    \/ v.t = "list" /\ \A i \in 1..Len(v.items) : IsDict(v.items[i])
    \/ v.t \in {"str", "dict"} /\ ~Truthy(v)
\* ', '.join(reading_data.get('key_vocabulary', []))
VocabJoinOk(v) ==
    \/ v.t = "list" /\ AllStr(v)
    \/ v.t \in {"str", "dict"}
DisplayOk(b) ==
    /\ IsDict(b.verse_data)
    /\ IsDict(b.reading_data)
    /\ IsDict(b.lesson_data)
    /\ VocabJoinOk(DictGet(b.reading_data, Key("key_vocabulary"), ListVal(<<>>)))
    /\ \A i \in 1..5 :
          CategoryDisplayOk(DictGet(b.lesson_data, Categories[i], ListVal(<<>>)))

\* Lines 531-536: format_lesson_display, then the three outputs.
Display(r) ==
    /\ run[r].pc = "display"
    /\ IF DisplayOk(run[r].lesson_content)
       THEN Set(r, [run[r] EXCEPT !.pc = "done",
                      !.result = [kind |-> "lesson", pdf |-> run[r].pdf_path,
                                  audio |-> run[r].audio_path]])
       ELSE Set(r, Failed(run[r]))
    /\ UNCHANGED <<now, files, env, st>>

\* ---------------------------------------------------------------- clock
\* datetime.now() moves on by a second.
Tick ==
    /\ now < MaxClock
    /\ now' = now + 1
    /\ UNCHANGED <<run, files, env, st>>

\* ------------------------------------------------- one stage on its own
\* agent_verse_retriever, agent_content_creator, agent_lesson_designer or
\* agent_answer_key_generator called once with the records st holds: the
\* user message is built, the call is made, the response is reduced.
StageOff == [phase |-> "off", stage |-> "verse", language |-> "Spanish",
             outcome |-> GptOk(EmptyText), verse_data |-> NoneVal,
             reading_data |-> NoneVal, called |-> FALSE, raised |-> FALSE,
             val |-> NoneVal]
CallStage ==
    /\ st.phase = "in"
    /\ IF PromptOk(st.stage, st.language, st.verse_data, st.reading_data)
       THEN LET res == StageParse(st.stage, st.language, st.outcome)
            IN  st' = [st EXCEPT !.phase = "out", !.called = TRUE,
                                 !.raised = res.raised, !.val = res.val]
       ELSE st' = [st EXCEPT !.phase = "out", !.raised = TRUE]
    /\ UNCHANGED <<run, now, files, env>>

\* --------------------------------------------------------------- inputs
Levels == {"B1", "C2"}
ApiKeys == {"", "sk-user"}
ElevenKeys == {"", "el-user"}
Envs == [openai : {"None", "sk-env"}, eleven : {"None", "el-env"}]

Fenced(doc) == <<Fence, JsonLabel, Newline, doc, Newline, Fence>>
GenericFenced(doc) == <<Fence, Newline, doc, Newline, Fence>>
Timeout == GptFail(Lit("Request timed out.", 18))

\* The responses a run of the pipeline is tried with.
Outcomes(stage, language) ==
    LET l == Lower(language)
    IN  CASE stage = "verse" ->
               {GptOk(Fenced(JsonDoc("verse", l))), GptOk(<<Prose>>),
                GptOk(Fenced(JsonDoc("list", ""))), Timeout}
          [] stage = "reading" ->
               {GptOk(GenericFenced(JsonDoc("reading", l))),
                GptOk(<<JsonDoc("reading_num", l)>>),
                GptOk(Fenced(JsonDoc("reading_vocab_null", l))),
                GptOk(EmptyText),
                GptOk(<<Prose, Newline, Prose, Prose, Prose, Prose, Prose>>),
                GptOk(<<JsonDoc("string", "")>>)}
          [] stage = "exercise" ->
               {GptOk(Fenced(JsonDoc("exercises", ""))), GptOk(<<Prose>>),
                GptOk(Fenced(JsonDoc("exercises_str", ""))),
                GptOk(<<JsonDoc("list", "")>>)}
          [] stage = "answer" ->
               {GptOk(Fenced(JsonDoc("answers", ""))), Timeout,
                GptOk(<<JsonDoc("list", "")>>)}

\* Two submissions at once are tried with fewer responses.
OutcomesConc(stage, language) ==
    LET l == Lower(language)
    IN  CASE stage = "verse" -> {GptOk(Fenced(JsonDoc("verse", l)))}
          [] stage = "reading" -> {GptOk(GenericFenced(JsonDoc("reading", l)))}
          [] stage = "exercise" -> {GptOk(<<Prose>>)}
          [] stage = "answer" -> {GptOk(Fenced(JsonDoc("answers", "")))}

\* Every text of at most MaxLen tokens over the tokens the extraction
\* tells apart.
DocKind(stage) ==
    CASE stage = "verse" -> "verse"
      [] stage = "reading" -> "reading"
      [] stage = "exercise" -> "exercises"
      [] stage = "answer" -> "answers"
Alphabet(stage, language) ==
    {Fence, JsonLabel, Newline, Prose, JsonDoc(DocKind(stage), Lower(language)),
     JsonDoc("list", "")}
Texts(stage, language) ==
    UNION {[1..n -> Alphabet(stage, language)] : n \in 0..MaxLen}
\* Longer responses: prose around a labelled block, a generic block before
\* a labelled one, an undecodable labelled block before a decodable one, an
\* unlabelled block between prose, and prose longer than every cut.
LongTexts(stage, language) ==
    LET doc == JsonDoc(DocKind(stage), Lower(language))
    IN  {<<Prose, Newline>> \o Fenced(doc) \o <<Newline, Prose>>,
         <<Fence, Newline, Prose, Newline, Fence, Newline>> \o Fenced(doc),
         <<Fence, JsonLabel, Prose, Fence, Newline>> \o Fenced(doc),
         <<Prose, Newline>> \o GenericFenced(doc) \o <<Newline, Prose>>,
         <<Prose, Prose, Newline, Prose, Prose, Prose, Prose>>}
StageOutcomes(stage, language) ==
    {GptOk(t) : t \in Texts(stage, language) \cup LongTexts(stage, language)}
        \cup {Timeout, GptFail(Lit("Rate limit reached", 150))}
\* The records of the earlier stages a stage is called with.
Priors(language) ==
    {[verse_data |-> VerseFallback(language, <<Prose>>),
      reading_data |-> ReadingFallback(language, <<Prose>>)],
     [verse_data |-> JsonValue("list", ""),
      reading_data |-> ReadingFallback(language, <<Prose>>)],
     [verse_data |-> JsonValue("verse", Lower(language)),
      reading_data |-> JsonValue("reading_num", Lower(language))]}

\* ------------------------------------------------------- specifications
InitCommon ==
    /\ now = 0
    /\ files = {}
    /\ env \in Envs

\* One submission.
Init ==
    /\ InitCommon
    /\ run = [r \in Runs |-> IF r = "r1" THEN FreshRun("idle") ELSE FreshRun("off")]
    /\ st = StageOff

\* Two submissions at once.
InitConc ==
    /\ InitCommon
    /\ run = [r \in Runs |-> FreshRun("idle")]
    /\ st = StageOff

\* One stage called on its own.
InitStage ==
    /\ now = 0
    /\ files = {}
    /\ env = [openai |-> "None", eleven |-> "None"]
    /\ run = [r \in Runs |-> FreshRun("off")]
    /\ \E stage \in Stages, language \in Languages :
         \E outcome \in StageOutcomes(stage, language), p \in Priors(language) :
            st = [StageOff EXCEPT !.phase = "in", !.stage = stage,
                                  !.language = language, !.outcome = outcome,
                                  !.verse_data = p.verse_data,
                                  !.reading_data = p.reading_data]

Next ==
    \/ \E r \in Runs, api_key \in ApiKeys, elevenlabs_key \in ElevenKeys,
          language \in Languages, level \in Levels :
            Submit(r, api_key, elevenlabs_key, language, level)
    \/ \E r \in Runs : VerseBegin(r)
    \/ \E r \in Runs : \E o \in Outcomes("verse", run[r].language) : VerseReturn(r, o)
    \/ \E r \in Runs : ReadingBegin(r)
    \/ \E r \in Runs : \E o \in Outcomes("reading", run[r].language) : ReadingReturn(r, o)
    \/ \E r \in Runs : ExerciseBegin(r)
    \/ \E r \in Runs : \E o \in Outcomes("exercise", run[r].language) : ExerciseReturn(r, o)
    \/ \E r \in Runs : AnswerBegin(r)
    \/ \E r \in Runs : \E o \in Outcomes("answer", run[r].language) : AnswerReturn(r, o)
    \/ \E r \in Runs : AudioBegin(r)
    \/ \E r \in Runs, o \in TtsOutcomes : TtsReturn(r, o)
    \/ \E r \in Runs : Render(r)
    \/ \E r \in Runs : Display(r)
    \/ Tick

NextConc ==
    \/ \E r \in Runs, elevenlabs_key \in ElevenKeys :
            Submit(r, "sk-user", elevenlabs_key, "Spanish", "B1")
    \/ \E r \in Runs : VerseBegin(r)
    \/ \E r \in Runs : \E o \in OutcomesConc("verse", run[r].language) : VerseReturn(r, o)
    \/ \E r \in Runs : ReadingBegin(r)
    \/ \E r \in Runs : \E o \in OutcomesConc("reading", run[r].language) : ReadingReturn(r, o)
    \/ \E r \in Runs : ExerciseBegin(r)
    \/ \E r \in Runs : \E o \in OutcomesConc("exercise", run[r].language) : ExerciseReturn(r, o)
    \/ \E r \in Runs : AnswerBegin(r)
    \/ \E r \in Runs : \E o \in OutcomesConc("answer", run[r].language) : AnswerReturn(r, o)
    \/ \E r \in Runs : AudioBegin(r)
    \/ \E r \in Runs, o \in TtsOutcomes : TtsReturn(r, o)
    \/ \E r \in Runs : Render(r)
    \/ \E r \in Runs : Display(r)
    \/ Tick

NextStage == CallStage

Spec == Init /\ [][Next]_vars
SpecConc == InitConc /\ [][NextConc]_vars
SpecStage == InitStage /\ [][NextStage]_vars

\* =========================================================== properties
Submitted(r) == run[r].pc \notin {"idle", "off"}
HadCredential(r) == Submitted(r) /\ run[r].result.kind # "missing_key"
Finished(r) == run[r].pc = "done"
Returned(r, stage) == \E i \in 1..Len(run[r].log) : run[r].log[i] = Ev("return", stage)
FilesBy(r) == {f \in files : f.by = r}
\* The response text a stage worked on, and whether its extraction decodes.
ResponseText(outcome) ==
    IF outcome.failed THEN Lit("Error: ", 7) \o outcome.text ELSE outcome.text
HasFence(t) == \E i \in 1..Len(t) : t[i] = Fence
Unparsable(outcome) == ~json_loads_ok(JsonStr(ResponseText(outcome)))

\* C1: once a generation credential is available, whatever the four
\* generation calls return, generate_lesson ends with a lesson and a
\* document path, never with the error outcome.
C1_AlwaysDocument ==
    \A r \in Runs :
        (Finished(r) /\ HadCredential(r)) =>
            (run[r].result.kind = "lesson" /\ run[r].result.pdf # NoPath)

\* C2: a stage whose call failed, or whose response has no fence and does
\* not decode, returns its fallback record and raises nothing.
C2_FallbackNeverRaises ==
    (/\ st.phase = "out"
     /\ st.called
     /\ \/ st.outcome.failed
        \/ ~HasFence(st.outcome.text) /\ ~json_loads_ok(st.outcome.text))
    => (/\ ~st.raised
        /\ st.val = Fallback(st.stage, st.language, ResponseText(st.outcome)))
C2_Witness ==
    /\ st.phase = "out"
    /\ st.called
    /\ st.outcome.failed
    /\ st.stage = "answer"
    /\ st.val = AnswerFallback

\* The fenced block the extraction is to use: the first fence followed by
\* the label json, closed by the next fence; when no fence is labelled, the
\* first two fences.
Least(S) == CHOOSE i \in S : \A j \in S : i <= j
LabelledAt(t) == {i \in 1..(Len(t) - 1) : t[i] = Fence /\ t[i + 1] = JsonLabel}
FencesAfter(t, i) == {j \in (i + 1)..Len(t) : t[j] = Fence}
HasLabelledBlock(t) ==
    LabelledAt(t) # {} /\ FencesAfter(t, Least(LabelledAt(t)) + 1) # {}
HasGenericBlock(t) ==
    /\ LabelledAt(t) = {}
    /\ FencesAfter(t, 0) # {}
    /\ FencesAfter(t, Least(FencesAfter(t, 0))) # {}
BlockContent(t) ==
    IF LabelledAt(t) # {}
    THEN LET i == Least(LabelledAt(t))
         IN  SubSeq(t, i + 2, Least(FencesAfter(t, i + 1)) - 1)
    ELSE LET i == Least(FencesAfter(t, 0))
         IN  SubSeq(t, i + 1, Least(FencesAfter(t, i)) - 1)

\* C3: when the block the extraction is to use (the first json-labelled
\* fence, else the first generic fence pair) holds decodable content, the
\* stage returns exactly the decoded content.
C3_FencedContentExact ==
    (/\ st.phase = "out"
     /\ st.called
     /\ ~st.outcome.failed
     /\ HasLabelledBlock(st.outcome.text) \/ HasGenericBlock(st.outcome.text)
     /\ json_loads_ok(BlockContent(st.outcome.text)))
    => (/\ ~st.raised
        /\ st.val = json_loads(BlockContent(st.outcome.text)))
C3_Witness ==
    /\ st.phase = "out"
    /\ st.called
    /\ st.stage = "exercise"
    /\ HasLabelledBlock(st.outcome.text)
    /\ Len(st.outcome.text) = 4
    /\ json_loads_ok(BlockContent(st.outcome.text))
    /\ st.val = JsonValue("exercises", "")

\* C4: a stage whose response does not decode returns a record with every
\* key the later stages read: verse_reference, verse_text_<lang> and
\* meditation_<lang>; reading_text_<lang> and key_vocabulary; the five
\* category lists, each non-empty.
NonEmptyList(v) == v.t = "list" /\ v.items # <<>>
C4_FallbackHasKeys ==
    (st.phase = "out" /\ st.called /\ Unparsable(st.outcome))
    => (/\ IsDict(st.val)
        /\ st.stage = "verse" =>
              /\ HasKey(st.val, <<"verse_reference", "">>)
              /\ HasKey(st.val, <<"verse_text_", Lower(st.language)>>)
              /\ HasKey(st.val, <<"meditation_", Lower(st.language)>>)
        /\ st.stage = "reading" =>
              /\ HasKey(st.val, <<"reading_text_", Lower(st.language)>>)
              /\ HasKey(st.val, <<"key_vocabulary", "">>)
        /\ st.stage \in {"exercise", "answer"} =>
              \A c \in {"reading_exercises", "writing_exercises",
                        "listening_exercises", "speaking_exercises",
                        "filling_exercises"} :
                  /\ HasKey(st.val, <<c, "">>)
                  /\ NonEmptyList(DictGet(st.val, <<c, "">>, NoneVal)))
C4_Witness ==
    /\ st.phase = "out"
    /\ st.called
    /\ st.stage = "verse"
    /\ st.language = "French"
    /\ Unparsable(st.outcome)
    /\ TextLen(st.outcome.text) > VerseTextCut
    /\ HasKey(st.val, <<"meditation_", "french">>)

\* C5: in a run whose exercise call returned unparsable text, the bundle's
\* ExerciseSet is the exercise fallback, the answer stage was entered with
\* that fallback, and the run ends with a lesson, not an abort.
C5_ExerciseFallbackNoAbort ==
    \A r \in Runs :
        (Finished(r) /\ Returned(r, "exercise") /\ Unparsable(run[r].raw["exercise"]))
        => (/\ run[r].answer_input = ExerciseFallback
            /\ run[r].bundled
            /\ run[r].lesson_content.lesson_data = ExerciseFallback
            /\ run[r].result.kind = "lesson")
\* What holds of such a run: the fallback is what the answer stage and the
\* bundle receive.
C5_FallbackIsPassedOn ==
    \A r \in Runs :
        (Returned(r, "exercise") /\ Unparsable(run[r].raw["exercise"]))
        => (/\ run[r].lesson_data = ExerciseFallback
            /\ run[r].calls["answer"] = 1 => run[r].answer_input = ExerciseFallback
            /\ run[r].bundled => run[r].lesson_content.lesson_data = ExerciseFallback
            /\ run[r].pc \notin {"answer", "done"} => run[r].result.kind = "none")

\* The calls and returns of a run, in the order they happened.
IsCallOrReturn(e) == e.e # "progress"
Calls(r) == SelectSeq(run[r].log, IsCallOrReturn)
StageOrder == <<"verse", "reading", "exercise", "answer", "audio", "render">>
StageOrderNoAudio == <<"verse", "reading", "exercise", "answer", "render">>
\* Every stage is called after the one before it has returned.
FollowsOrder(r, order) ==
    /\ Len(Calls(r)) <= 2 * Len(order)
    /\ \A i \in 1..Len(Calls(r)) :
          Calls(r)[i] = Ev(IF i % 2 = 1 THEN "call" ELSE "return", order[(i + 1) \div 2])
InOrder(r) == FollowsOrder(r, StageOrder) \/ FollowsOrder(r, StageOrderNoAudio)

\* C6: the stages begin in the fixed order, each after the one before it
\* has returned; every generation stage issues exactly one call in a run,
\* the audio stage at most one, and nothing is retried.
C6_OrderedOneCallEach ==
    \A r \in Runs :
        /\ InOrder(r)
        /\ run[r].tts_calls <= 1
        /\ \A s \in Stages : run[r].calls[s] <= 1
        /\ (Finished(r) /\ HadCredential(r)) => \A s \in Stages : run[r].calls[s] = 1
\* What holds of every run: the order, and no second call.
C6_OrderedNoRetry ==
    \A r \in Runs :
        /\ InOrder(r)
        /\ run[r].tts_calls <= 1
        /\ \A s \in Stages : run[r].calls[s] <= 1
        /\ \A s \in Stages : Returned(r, s) => run[r].calls[s] = 1
        /\ run[r].bundled => \A s \in Stages : run[r].calls[s] = 1

\* C7: with no generation credential in the request and none in the
\* environment, generate_lesson returns the error at once: no document, no
\* audio, no call, no file, no progress note.
C7_NoCredentialNoStage ==
    \A r \in Runs :
        (Submitted(r) /\ Falsy(run[r].req_api_key) /\ Falsy(env.openai))
        => (/\ Finished(r)
            /\ run[r].result = [kind |-> "missing_key", pdf |-> NoPath, audio |-> NoPath]
            /\ run[r].calls = NoCalls
            /\ run[r].tts_calls = 0
            /\ run[r].log = <<>>
            /\ ~run[r].bundled
            /\ FilesBy(r) = {})
C7_Witness ==
    \E r \in Runs :
        /\ Finished(r)
        /\ run[r].req_api_key = ""
        /\ env.openai = "None"
        /\ run[r].result.kind = "missing_key"

\* C8: a system without a synthesis credential issues no synthesis request
\* and has no audio: none in the bundle, none returned, no audio file.
C8_NoKeyNoSynthesis ==
    \A r \in Runs :
        (HadCredential(r) /\ Falsy(run[r].elevenlabs_key))
        => (/\ run[r].tts_calls = 0
            /\ run[r].pc # "tts_wait"
            /\ ~\E i \in 1..Len(run[r].log) : run[r].log[i].s = "audio"
            /\ run[r].audio_path = NoPath
            /\ run[r].lesson_content.audio_path = NoPath
            /\ run[r].result.audio = NoPath
            /\ \A f \in FilesBy(r) : f.path[1] # "reading_audio_")
C8_Witness ==
    \E r \in Runs :
        /\ Finished(r)
        /\ run[r].result.kind = "lesson"
        /\ run[r].elevenlabs_key = ""
        /\ run[r].lesson_content.audio_path = NoPath
        /\ Returned(r, "render")

\* C9: after a failed synthesis request the audio stage has returned no
\* audio and written no audio file, the run goes on to render and returns a
\* document path, and the document carries the audio note exactly when the
\* bundle has an audio artifact.
C9_FailedSynthesisStillDocument ==
    \A r \in Runs :
        (run[r].tts_outcome \in {"status", "transport"})
        => (/\ run[r].audio_path = NoPath
            /\ \A f \in FilesBy(r) : f.path[1] # "reading_audio_"
            /\ Finished(r) =>
                  /\ run[r].result.kind = "lesson"
                  /\ run[r].result.pdf # NoPath
                  /\ run[r].doc.audio_note = (run[r].lesson_content.audio_path # NoPath))
\* What holds after a failed synthesis request: no audio, render is entered,
\* and a rendered document has the note exactly with an audio artifact.
C9_FailedSynthesisNoAudio ==
    \A r \in Runs :
        /\ (run[r].tts_outcome \in {"status", "transport"})
           => (/\ run[r].audio_path = NoPath
               /\ \A f \in FilesBy(r) : f.path[1] # "reading_audio_"
               /\ run[r].pc \in {"render", "display", "done"}
               /\ Finished(r) => run[r].bundled)
        /\ run[r].pdf_path # NoPath
           => run[r].doc.audio_note = (run[r].lesson_content.audio_path # NoPath)

\* C10: a path written or returned by one run is never written or returned
\* by another.
PathsOf(r) ==
    {f.path : f \in FilesBy(r)}
        \cup ({run[r].result.pdf, run[r].result.audio} \ {NoPath})
C10_FilesOwnedByOneRun ==
    \A r1 \in Runs, r2 \in Runs : r1 # r2 => PathsOf(r1) \cap PathsOf(r2) = {}

\* ================================================= generate_pdf in full
\* The bundle as the dict generate_pdf and format_lesson_display read it
\* from: a key may be missing.  The document is the list of flowables
\* handed to doc.build, in order.
Para(style, text) == [kind |-> "Paragraph", style |-> style, text |-> text]
Spacer == [kind |-> "Spacer", style |-> "", text |-> EmptyText]
PageBreak == [kind |-> "PageBreak", style |-> "", text |-> EmptyText]
NotAvailable == StrVal(Lit("N/A", 3))
EmptyDict == DictVal(<<>>, <<>>)
EmptyList == ListVal(<<>>)

\* str(v), as an f-string interpolates it
PyStr(v) ==
    CASE v.t = "str"  -> v.s
      [] v.t = "none" -> Lit("None", 4)
      [] v.t = "num"  -> Lit("1", 1)
      [] v.t = "list" -> Lit("[...]", 5)
      [] v.t = "dict" -> Lit("{...}", 5)
\* the decimal digits of i
NumText(i) == <<Run(<<"digits", "">>, i, 1)>>
LanguageText(language) == Lit(language, IF language = "Spanish" THEN 7 ELSE 6)

\* lesson_content[k]: a missing key is an error, written as None here so
\* that the next .get on it raises.
BundleIndex(lesson_content, k, default) ==
    IF HasKey(lesson_content, k) THEN DictGet(lesson_content, k, default) ELSE NoneVal
\* lesson_content.get(k, default)
BundleGet(lesson_content, k, default) == DictGet(lesson_content, k, default)

\* ", ".join(vocab)
JoinComma(vocab) ==
    LET n == Len(vocab.items)
        piece(i) == IF i = 1 THEN vocab.items[i].s
                    ELSE Lit(", ", 2) \o vocab.items[i].s
        RECURSIVE upto(_)
        upto(i) == IF i = 0 THEN EmptyText ELSE upto(i - 1) \o piece(i)
    IN  upto(n)

\* Lines 375-386.
add_exercises(title, exercises) ==
    LET n == IF exercises.t = "list" THEN Len(exercises.items) ELSE 0
        question(i) ==
            LET ex == exercises.items[i]
            IN  IF IsDict(ex) THEN DictGet(ex, Key("question"), StrVal(PyStr(ex)))
                ELSE StrVal(PyStr(ex))
    IN  <<Para("Heading2", title), Spacer>>
          \o [j \in 1..(2 * n) |->
                IF j % 2 = 1
                THEN Para("BodyText", NumText((j + 1) \div 2) \o Lit(". ", 2)
                                        \o PyStr(question((j + 1) \div 2)))
                ELSE Spacer]
          \o <<Spacer>>

\* Lines 388-406.
add_answers(title, answers) ==
    LET n == IF answers.t = "list" THEN Len(answers.items) ELSE 0
        text(i) ==
            LET ans == answers.items[i]
                answer == DictGet(ans, Key("answer"), StrVal(EmptyText))
                explanation == DictGet(ans, Key("explanation"), StrVal(EmptyText))
            IN  IF IsDict(ans)
                THEN NumText(i) \o Lit(". <b>", 5) \o PyStr(answer) \o Lit("</b>", 4)
                       \o (IF Truthy(explanation)
                           THEN Lit(" <i>(", 5) \o PyStr(explanation) \o Lit(")</i>", 5)
                           ELSE EmptyText)
                ELSE NumText(i) \o Lit(". ", 2) \o PyStr(ans)
    IN  <<Para("Heading3", Lit("<b>", 3) \o title \o Lit("</b>", 4)), Spacer>>
          \o [j \in 1..(2 * n) |->
                IF j % 2 = 1 THEN Para("BodyText", text((j + 1) \div 2)) ELSE Spacer]
          \o <<Spacer>>

ExerciseTitles ==
    <<Lit("Reading Exercises", 17), Lit("Writing Exercises", 17),
      Lit("Listening Exercises", 19), Lit("Speaking Exercises", 18),
      Lit("Fill-in-the-Blank Exercises", 27)>>
AnswerTitles ==
    <<Lit("Reading Answers", 15), Lit("Writing Answers", 15),
      Lit("Listening Answers", 17), Lit("Speaking Answers", 16),
      Lit("Fill-in-the-Blank Answers", 25)>>
VerseTitle == Lit("Verse of the Day", 16)
ReadingTitle == Lit("Reading Comprehension", 21)
AnswerKeyTitle == Lit("Answer Key", 10)

\* Lines 269-373: generate_pdf of the system built for language, at clock
\* reading t.  [raised, path, elements]: a .get on a value that is no dict
\* and a join over a list holding a non-string raise.
generate_pdf(language, lesson_content, t) ==
    LET verse_data == BundleGet(lesson_content, Key("verse_data"), EmptyDict)
        reading_data == BundleGet(lesson_content, Key("reading_data"), EmptyDict)
        lesson_data == BundleGet(lesson_content, Key("lesson_data"), EmptyDict)
        answers == BundleGet(lesson_content, Key("answers"), EmptyDict)
        level == BundleGet(lesson_content, Key("level"), StrVal(Lit("B1", 2)))
        audio_path == BundleGet(lesson_content, Key("audio_path"), NoneVal)
        verse_ref == DictGet(verse_data, Key("verse_reference"), NotAvailable)
        verse_text == DictGet(verse_data, fieldName("verse_text_", language), NotAvailable)
        meditation == DictGet(verse_data, fieldName("meditation_", language),
                              StrVal(EmptyText))
        reading_text == DictGet(reading_data, fieldName("reading_text_", language),
                                NotAvailable)
        vocab == DictGet(reading_data, Key("key_vocabulary"), EmptyList)
        ok == PdfOk([verse_data |-> verse_data, reading_data |-> reading_data,
                     lesson_data |-> lesson_data, answers |-> answers])
        first_page ==
            <<Para("CustomTitle", Lit("Bible Language Learning Lesson<br/>", 35)
                                    \o LanguageText(language)),
              Spacer,
              Para("BodyText", Lit("Date: ", 6) \o Lit("date", 12)
                                 \o Lit("<br/>Level: ", 12) \o PyStr(level)),
              Spacer,
              Para("Heading2", VerseTitle), Spacer,
              Para("BodyText", Lit("<b>", 3) \o PyStr(verse_ref) \o Lit("</b>", 4)),
              Para("BodyText", Lit("<i>", 3) \o PyStr(verse_text) \o Lit("</i>", 4)),
              Spacer>>
            \o (IF Truthy(meditation)
                THEN <<Para("BodyText", Lit("<b>Meditation:</b> ", 19) \o PyStr(meditation)),
                       Spacer>>
                ELSE <<>>)
            \o <<Para("Heading2", ReadingTitle), Spacer,
                 Para("BodyText", PyStr(reading_text)), Spacer>>
            \o (IF Truthy(audio_path)
                THEN <<Para("BodyText",
                            Lit("<b>Audio available for listening exercise</b>", 45)),
                       Spacer>>
                ELSE <<>>)
            \o (IF Truthy(vocab)
                THEN <<Para("BodyText", Lit("<b>Key Vocabulary:</b>", 22)),
                       Para("BodyText", IF vocab.t = "list" THEN JoinComma(vocab)
                                        ELSE PyStr(vocab)),
                       Spacer>>
                ELSE <<>>)
            \o <<PageBreak>>
        RECURSIVE exercises(_)
        exercises(i) ==
            IF i = 0 THEN <<>>
            ELSE exercises(i - 1)
                   \o add_exercises(ExerciseTitles[i],
                                    DictGet(lesson_data, Categories[i], EmptyList))
        RECURSIVE answer_key(_)
        answer_key(i) ==
            IF i = 0 THEN <<>>
            ELSE answer_key(i - 1)
                   \o add_answers(AnswerTitles[i],
                                  DictGet(answers, Categories[i], EmptyList))
    IN  IF ok
        THEN [raised |-> FALSE, path |-> PdfPath(t),
              elements |-> first_page \o exercises(5) \o <<PageBreak>>
                             \o <<Para("Heading2", AnswerKeyTitle), Spacer>>
                             \o answer_key(5)]
        ELSE [raised |-> TRUE, path |-> NoPath, elements |-> <<>>]

\* ------------------------------------------- generate_pdf on its own
\* A bundle with some of its six keys missing.  vals[i] is the value of
\* BundleFields[i], or Absent.
BundleFields == <<Key("level"), Key("verse_data"), Key("reading_data"),
                  Key("lesson_data"), Key("answers"), Key("audio_path")>>
Absent == [t |-> "absent", s |-> <<>>, keys |-> <<>>, items |-> <<>>]
Bundle(vals) ==
    LET idx == SelectSeq(<<1, 2, 3, 4, 5, 6>>, LAMBDA i : vals[i] # Absent)
    IN  DictVal([j \in 1..Len(idx) |-> BundleFields[idx[j]]],
                [j \in 1..Len(idx) |-> vals[idx[j]]])
\* The values a key is tried with: what the stages can return (fallbacks,
\* decoded records, decoded values that are no record) and empty records.
LevelValues == {StrVal(Lit(level, 2)) : level \in Levels}
VerseValues(language) ==
    {EmptyDict, VerseFallback(language, <<Prose>>),
     JsonValue("verse", Lower(language)), JsonValue("list", "")}
ReadingValues(language) ==
    {EmptyDict, ReadingFallback(language, <<Prose>>),
     JsonValue("reading", Lower(language)),
     JsonValue("reading_vocab_null", Lower(language)),
     DictVal(<<Key("key_vocabulary")>>, <<ListVal(<<NumVal>>)>>)}
LessonValues ==
    {EmptyDict, ExerciseFallback, JsonValue("exercises_str", ""),
     JsonValue("list", "")}
AnswerValues == {EmptyDict, AnswerFallback, JsonValue("string", "")}
AudioValues == {NoneVal, StrVal(Lit("reading_audio.mp3", 17))}
Bundles(language) ==
    {Bundle(<<lv, vd, rd, ld, an, au>>) :
        lv \in LevelValues \cup {Absent},
        vd \in VerseValues(language) \cup {Absent},
        rd \in ReadingValues(language) \cup {Absent},
        ld \in LessonValues \cup {Absent},
        an \in AnswerValues \cup {Absent},
        au \in AudioValues \cup {Absent}}

InitRender ==
    /\ now \in 0..MaxClock
    /\ files = {}
    /\ env = [openai |-> "None", eleven |-> "None"]
    /\ run = [r \in Runs |-> FreshRun("off")]
    /\ \E language \in Languages : \E lesson_content \in Bundles(language) :
          st = [phase |-> "in", language |-> language,
                lesson_content |-> lesson_content,
                raised |-> FALSE, path |-> NoPath, elements |-> <<>>]

\* system.generate_pdf(lesson_content) and what it leaves behind.
CallRender ==
    /\ st.phase = "in"
    /\ LET res == generate_pdf(st.language, st.lesson_content, now)
       IN  /\ st' = [st EXCEPT !.phase = "out", !.raised = res.raised,
                               !.path = res.path, !.elements = res.elements]
           /\ files' = IF res.raised THEN files
                       ELSE files \cup {[path |-> res.path, by |-> "caller"]}
    /\ UNCHANGED <<run, now, env>>

NextRender == CallRender
SpecRender == InitRender /\ [][NextRender]_vars

\* ------------------------------------------------------------------ C11
\* The sections of a document: a heading paragraph and the body paragraphs
\* that follow it up to the next heading.
IsHeading(e) == e.kind = "Paragraph" /\ e.style \in {"Heading2", "Heading3"}
HeadingAt(elements, i, title) == IsHeading(elements[i]) /\ Contains(elements[i].text, title)
HasSection(elements, title) == \E i \in 1..Len(elements) : HeadingAt(elements, i, title)
SectionBody(elements, title) ==
    LET h == CHOOSE i \in 1..Len(elements) : HeadingAt(elements, i, title)
        later == {j \in (h + 1)..Len(elements) : IsHeading(elements[j])}
        end == IF later = {} THEN Len(elements) + 1
               ELSE CHOOSE j \in later : \A k \in later : j <= k
    IN  SelectSeq(SubSeq(elements, h + 1, end - 1), LAMBDA e : e.kind = "Paragraph")
Shows(elements, text) == \E i \in 1..Len(elements) : Contains(elements[i].text, text)
ListTitles == {ExerciseTitles[i] : i \in 1..5} \cup {AnswerTitles[i] : i \in 1..5}
SectionTitles == {VerseTitle, ReadingTitle} \cup ListTitles
OnlyLevel(lesson_content) == lesson_content.keys = <<Key("level")>>
Without(d, k) ==
    LET idx == SelectSeq([i \in 1..Len(d.keys) |-> i], LAMBDA i : d.keys[i] # k)
    IN  DictVal([j \in 1..Len(idx) |-> d.keys[idx[j]]],
                [j \in 1..Len(idx) |-> d.items[idx[j]]])
Rendered == st.phase = "out"
\* The document is written under the returned path and carries the level.
RenderedWithLevel ==
    /\ ~st.raised
    /\ st.path = PdfPath(now)
    /\ [path |-> st.path, by |-> "caller"] \in files
    /\ Shows(st.elements, Lit("<br/>Level: ", 12)
                            \o PyStr(DictGet(st.lesson_content, Key("level"), NoneVal)))
\* A rendering that succeeds still succeeds with any one key taken away,
\* and a bundle whose records are all empty renders.
C11_AbsenceNeverFails ==
    Rendered =>
      /\ ~st.raised =>
            \A i \in 1..Len(st.lesson_content.keys) :
               ~generate_pdf(st.language,
                             Without(st.lesson_content, st.lesson_content.keys[i]),
                             now).raised
      /\ (\A i \in 1..Len(st.lesson_content.keys) :
             st.lesson_content.keys[i] \in {Key("level"), Key("audio_path")}
                \/ st.lesson_content.items[i] = EmptyDict)
            => ~st.raised

\* C11 as stated: a bundle holding only its level renders without raising
\* to a document at the returned path that shows the level and has
\* placeholder text in every section (verse, reading, the five exercise
\* categories, the five answer categories); no absent field makes
\* rendering fail.
C11_PlaceholderEverySection ==
    /\ (Rendered /\ OnlyLevel(st.lesson_content)) =>
          /\ RenderedWithLevel
          /\ \A title \in SectionTitles :
                /\ HasSection(st.elements, title)
                /\ SectionBody(st.elements, title) # <<>>
    /\ C11_AbsenceNeverFails

\* C11 amended: a bundle holding only its level renders without raising to
\* a document at the returned path that shows the level, "N/A" for the
\* verse reference, the verse text and the reading passage, and for each of
\* the five exercise and five answer categories the heading alone, with no
\* text under it; no absent field makes rendering fail.
C11_MissingFieldsRender ==
    /\ (Rendered /\ OnlyLevel(st.lesson_content)) =>
          /\ RenderedWithLevel
          /\ HasSection(st.elements, VerseTitle)
          /\ SectionBody(st.elements, VerseTitle)
               = <<Para("BodyText", Lit("<b>", 3) \o Lit("N/A", 3) \o Lit("</b>", 4)),
                   Para("BodyText", Lit("<i>", 3) \o Lit("N/A", 3) \o Lit("</i>", 4))>>
          /\ HasSection(st.elements, ReadingTitle)
          /\ SectionBody(st.elements, ReadingTitle) = <<Para("BodyText", Lit("N/A", 3))>>
          /\ \A title \in ListTitles :
                /\ HasSection(st.elements, title)
                /\ SectionBody(st.elements, title) = <<>>
    /\ C11_AbsenceNeverFails
C11_Witness ==
    /\ Rendered
    /\ st.lesson_content = DictVal(<<Key("level")>>, <<StrVal(Lit("C2", 2))>>)
    /\ ~st.raised
    /\ Len(st.elements) > 0

\* ================================================ format_lesson_display
\* k.startswith(prefix) and k.replace(old, new) on keys <<prefix, suffix>>
StartsWith(k, prefix) == k[1] = prefix
Replace(k, old, new) == IF k[1] = old THEN <<new, k[2]>> ELSE k
VerseTextEnglish == <<"verse_text_", "english">>

\* The first key with the verse_text_ prefix, the English one included.
VerseLangKeyAny(verse_data) ==
    LET lang_keys == SelectSeq(verse_data.keys,
                               LAMBDA k : StartsWith(k, "verse_text_"))
    IN  IF lang_keys # <<>> THEN lang_keys[1] ELSE VerseTextEnglish
\* Lines 460-461: lang_keys and verse_lang_key.
VerseLangKey(verse_data) ==
    LET lang_keys == SelectSeq(verse_data.keys,
                               LAMBDA k : StartsWith(k, "verse_text_")
                                            /\ k # VerseTextEnglish)
    IN  IF lang_keys # <<>> THEN lang_keys[1] ELSE VerseTextEnglish

\* Lines 453-509: [raised, verse_reference, verse_text, meditation,
\* reading_text]: the texts put under the verse and reading headings.
format_lesson_display(lesson_content) ==
    LET verse_data == BundleGet(lesson_content, Key("verse_data"), EmptyDict)
        reading_data == BundleGet(lesson_content, Key("reading_data"), EmptyDict)
        lesson_data == BundleGet(lesson_content, Key("lesson_data"), EmptyDict)
        verse_lang_key == VerseLangKey(verse_data)
        meditation_lang_key == Replace(verse_lang_key, "verse_text_", "meditation_")
        reading_lang_key == Replace(verse_lang_key, "verse_text_", "reading_text_")
        ok == DisplayOk([verse_data |-> verse_data, reading_data |-> reading_data,
                         lesson_data |-> lesson_data])
    IN  IF ok
        THEN [raised |-> FALSE,
              verse_reference |->
                 PyStr(DictGet(verse_data, Key("verse_reference"), NotAvailable)),
              verse_text |->
                 PyStr(DictGet(verse_data, verse_lang_key,
                               DictGet(verse_data, VerseTextEnglish, NotAvailable))),
              meditation |->
                 PyStr(DictGet(verse_data, meditation_lang_key,
                               DictGet(verse_data, <<"meditation_", "english">>,
                                       NotAvailable))),
              reading_text |->
                 PyStr(DictGet(reading_data, reading_lang_key,
                               DictGet(reading_data, <<"reading_text_", "english">>,
                                       NotAvailable)))]
        ELSE [raised |-> TRUE, verse_reference |-> EmptyText, verse_text |-> EmptyText,
              meditation |-> EmptyText, reading_text |-> EmptyText]

\* ---------------------------------- format_lesson_display on its own
\* Most keys a record is given.
MaxKeys == 3
\* Records whose keys come in any order; the value under a key is a text
\* naming that key, so that the texts shown tell the keys apart.
ValueOf(k) == StrVal(<<Run(k, 0, 10)>>)
Record(keys) == DictVal(keys, [i \in 1..Len(keys) |-> ValueOf(keys[i])])
DistinctSeqs(S, n) ==
    UNION {{q \in [1..m -> S] : \A i \in 1..m, j \in 1..m : q[i] = q[j] => i = j} :
              m \in 0..n}
DisplayLanguages == {"english", "french", "spanish"}
VerseKeys == {<<p, l>> : p \in {"verse_text_", "meditation_"}, l \in DisplayLanguages}
ReadingKeys == {<<"reading_text_", l>> : l \in DisplayLanguages}
VerseRecords == {Record(q) : q \in DistinctSeqs(VerseKeys, MaxKeys)}
ReadingRecords == {Record(q) : q \in DistinctSeqs(ReadingKeys, MaxKeys)}
DisplayBundles ==
    {Bundle(<<Absent, vd, rd, ld, Absent, Absent>>) :
        vd \in VerseRecords \cup {Absent, JsonValue("list", "")},
        rd \in ReadingRecords \cup {Absent},
        ld \in {Absent, ExerciseFallback, JsonValue("exercises_str", "")}}

InitDisplay ==
    /\ now = 0
    /\ files = {}
    /\ env = [openai |-> "None", eleven |-> "None"]
    /\ run = [r \in Runs |-> FreshRun("off")]
    /\ \E lesson_content \in DisplayBundles :
          st = [phase |-> "in", lesson_content |-> lesson_content,
                out |-> format_lesson_display(EmptyDict)]

CallDisplay ==
    /\ st.phase = "in"
    /\ st' = [st EXCEPT !.phase = "out",
                        !.out = format_lesson_display(st.lesson_content)]
    /\ UNCHANGED <<run, now, files, env>>

NextDisplay == CallDisplay
SpecDisplay == InitDisplay /\ [][NextDisplay]_vars

\* ------------------------------------------------------------------ C12
Displayed == st.phase = "out" /\ ~st.out.raised
VerseData == DictGet(st.lesson_content, Key("verse_data"), EmptyDict)
ReadingData == DictGet(st.lesson_content, Key("reading_data"), EmptyDict)
\* The keys of d with the prefix that are not its English key, in order.
OtherKeys(d, prefix) ==
    SelectSeq(d.keys, LAMBDA k : k[1] = prefix /\ k[2] # "english")
\* C12: with "verse_text_english" and another "verse_text_" key in the
\* VerseRecord, the primary verse text shown is the value of the (first)
\* non-English key; the English text is primary only when the record has
\* no other "verse_text_" key.
C12_NonEnglishVersePrimary ==
    (Displayed /\ HasKey(VerseData, VerseTextEnglish)) =>
       LET others == OtherKeys(VerseData, "verse_text_")
       IN  /\ others # <<>> => st.out.verse_text = ValueOf(others[1]).s
           /\ st.out.verse_text = ValueOf(VerseTextEnglish).s => others = <<>>
C12_Witness ==
    /\ Displayed
    /\ VerseData.keys = <<VerseTextEnglish, <<"verse_text_", "french">>>>
    /\ st.out.verse_text = ValueOf(<<"verse_text_", "french">>).s

\* ------------------------------------------------------------------ C14
\* C14: the reading text shown is the value of the first ReadingRecord key
\* with the "reading_text_" prefix other than "reading_text_english"
\* whenever there is one, whatever the VerseRecord holds, the English
\* passage being shown only when there is none; and the meditation shown is
\* the value of the first non-English "meditation_" key of the VerseRecord
\* when there is one.
C14_ReadingOwnKeys ==
    Displayed =>
       LET reading == OtherKeys(ReadingData, "reading_text_")
           meditation == OtherKeys(VerseData, "meditation_")
       IN  /\ reading # <<>> => st.out.reading_text = ValueOf(reading[1]).s
           /\ st.out.reading_text = ValueOf(<<"reading_text_", "english">>).s
                 => reading = <<>>
           /\ meditation # <<>> => st.out.meditation = ValueOf(meditation[1]).s
\* What the code does: the reading and meditation keys carry the suffix of
\* the verse key chosen, and the English (or "N/A") value is shown when the
\* record has no key of that suffix.
C14_ReadingFollowsVerseKey ==
    Displayed =>
       LET l == VerseLangKey(VerseData)[2]
       IN  /\ st.out.reading_text =
                PyStr(DictGet(ReadingData, <<"reading_text_", l>>,
                              DictGet(ReadingData, <<"reading_text_", "english">>,
                                      NotAvailable)))
           /\ st.out.meditation =
                PyStr(DictGet(VerseData, <<"meditation_", l>>,
                              DictGet(VerseData, <<"meditation_", "english">>,
                                      NotAvailable)))

\* ------------------------------------------------------------------ C13
\* An exception left a stage, generate_pdf or format_lesson_display: the
\* run ended without the document being returned, or with a bundle
\* format_lesson_display raises on.
Escaped(r) ==
    /\ Finished(r)
    /\ HadCredential(r)
    /\ ~Returned(r, "render") \/ ~DisplayOk(run[r].lesson_content)
\* C13: when an exception escapes a stage, the renderer or the display
\* formatter, the result is the error string without document and without
\* audio; no result joins an error string to a document or audio path, even
\* when the file had been written before the exception.
C13_ErrorCarriesNoOutput ==
    \A r \in Runs :
        /\ Escaped(r) => run[r].result.kind = "error"
        /\ run[r].result.kind = "error" =>
              (run[r].result.pdf = NoPath /\ run[r].result.audio = NoPath)
C13_Witness ==
    \E r \in Runs :
        /\ Escaped(r)
        /\ run[r].result.kind = "error"
        /\ run[r].pdf_path # NoPath
        /\ run[r].audio_path # NoPath
        /\ {run[r].pdf_path, run[r].audio_path} \subseteq {f.path : f \in FilesBy(r)}

\* ------------------------------------------------------------------ C15
\* C15: a credential given in the request is the one the run uses, a value
\* of the environment standing in only for a credential the request left
\* out; a synthesis credential given in the request reaches the audio
\* stage unchanged, wherever the generation credential came from.
C15_SuppliedCredentialUsed ==
    \A r \in Runs :
        HadCredential(r) =>
            /\ ~Falsy(run[r].req_api_key) => run[r].api_key = run[r].req_api_key
            /\ ~Falsy(run[r].req_elevenlabs_key)
                  => run[r].elevenlabs_key = run[r].req_elevenlabs_key
\* What the code does: both credentials are the request's when it gives a
\* generation credential, and both are the environment's when it gives none.
C15_BothFromOneSource ==
    \A r \in Runs :
        HadCredential(r) =>
            IF Falsy(run[r].req_api_key)
            THEN run[r].api_key = env.openai /\ run[r].elevenlabs_key = env.eleven
            ELSE /\ run[r].api_key = run[r].req_api_key
                 /\ run[r].elevenlabs_key = run[r].req_elevenlabs_key

====
